---- MODULE Spec2Model ----
(***************************************************************************)
(* Model of the ledger service of nexus-banking-platform (banking_api).    *)
(*                                                                         *)
(* The store is a PostgreSQL database; every request owns one SQLAlchemy   *)
(* session (autocommit=False, expire_on_commit at its default True).  Each *)
(* repository method ends in session.commit(), so each repository call is  *)
(* its own database transaction: what it wrote is durable and visible to   *)
(* other requests as soon as the call returns, and the row lock taken by   *)
(* SELECT ... FOR UPDATE is released by that same commit.  After a commit  *)
(* every ORM object of the session is expired, so the next attribute read  *)
(* (account.current_balance) is a fresh SELECT of the committed row.       *)
(*                                                                         *)
(* One step of the model is one database round trip of one request.        *)
(* Amounts are integers (the code uses floats; rounding is not modelled).  *)
(***************************************************************************)
EXTENDS Integers, Sequences, FiniteSets, TLC

\* ---- bounds of the model ------------------------------------------------
MaxReq == 2        \* requests in flight at the same time (session slots)
MaxOps == 2        \* requests started in one behaviour
MaxAccounts == 1   \* account rows create_account may insert
MaxAmount == 1     \* largest amount / deposit a request carries, largest seeded balance
MaxKey == 2        \* distinct idempotency keys clients use
MaxFaults == 1     \* storage failures (lost connection, ...) in one behaviour
MaxProcs == 2      \* server processes working on the one database
MaxReads == 1      \* get_account_transfer_history requests in one behaviour

Req == 1 .. MaxReq
Keys == 1 .. MaxKey

\* ---- enumerations of the models ------------------------------------------
AccountStatus == {"ACTIVE", "INACTIVE", "SUSPENDED", "CLOSED"}
TransferStatus == {"PENDING", "COMPLETED", "FAILED", "CANCELLED"}
TransferType == {"INITIAL_DEPOSIT", "STANDARD"}

\* The database the service starts on is the seeded one of tests/conftest.py:
\* customers, ACTIVE accounts with a balance (ACCOUNT_ID_1, ACCOUNT_ID_2) and an
\* INACTIVE account of balance 0 (ACCOUNT_ID_4), all at version 1.  No operation
\* of the service sets a status other than ACTIVE.
SeedInactiveAccount == 0
SeedActiveAccounts == {1, 2}
SeedCustomer == 1
SeedBalance == MaxAmount
SeedCustomerName == "Arisha Barron"

\* ids a request may name: the seeded accounts and those create_account makes
AcctIds == 0 .. (Cardinality(SeedActiveAccounts) + MaxAccounts)

VARIABLES
    customers,   \* set of customer ids (rows of table customers)
    accounts,    \* account id -> [balance, version, status, customer] (table accounts)
    transfers,   \* sequence of transfer rows in insertion order; a row's id is its index
    lock,        \* account id -> slot holding the row's FOR UPDATE lock, 0 if none
    req,         \* slot -> the request the slot runs: position, arguments, locals, response
    opCount,     \* requests started so far
    faults,      \* storage failures injected so far
    appliedBy,   \* idempotency key -> requests (by sequence number) that wrote a balance under it
    keysSeen,    \* number of distinct idempotency keys clients have sent so far
    customerName, \* customer id -> name (column name of table customers)
    history      \* responses of get_account_transfer_history so far, oldest first

vars == <<customers, accounts, transfers, lock, req, opCount, faults, appliedBy, keysSeen,
          customerName, history>>


\* ---- pure pieces of the code ---------------------------------------------

\* mutant: the same-account test is missing
validate_transfer_request_no_self(amount, src, dst, type) ==
    IF amount <= 0 THEN "InvalidAmount400" ELSE "ok"

\* mutant: the amount test lets a zero amount through
validate_transfer_request_nonneg(amount, src, dst, type) ==
    IF amount < 0 THEN "InvalidAmount400"
    ELSE IF src = dst /\ type # "INITIAL_DEPOSIT" THEN "SameAccount400"
    ELSE "ok"

\* TransferService._validate_transfer_request
validate_transfer_request(amount, src, dst, type) ==
    IF amount <= 0 THEN "InvalidAmount400"
    ELSE IF src = dst /\ type # "INITIAL_DEPOSIT" THEN "SameAccount400"
    ELSE "ok"

\* mutant: the lookup only finds rows that are still PENDING
get_transfer_by_idempotency_key_pending(ts, key) ==
    IF \E i \in 1 .. Len(ts) : ts[i].key = key /\ ts[i].status = "PENDING"
    THEN CHOOSE i \in 1 .. Len(ts) : ts[i].key = key /\ ts[i].status = "PENDING"
    ELSE 0

\* mutant: the lookup only finds rows that are COMPLETED
get_transfer_by_idempotency_key_completed(ts, key) ==
    IF \E i \in 1 .. Len(ts) : ts[i].key = key /\ ts[i].status = "COMPLETED"
    THEN CHOOSE i \in 1 .. Len(ts) : ts[i].key = key /\ ts[i].status = "COMPLETED"
    ELSE 0

\* mutant: the lookup filters on the wrong column and never finds the row
get_transfer_by_idempotency_key_never(ts, key) == 0

\* TransferRepo.get_transfer_by_idempotency_key: the row's id, 0 for None
get_transfer_by_idempotency_key(ts, key) ==
    IF \E i \in 1 .. Len(ts) : ts[i].key = key
    THEN CHOOSE i \in 1 .. Len(ts) : ts[i].key = key
    ELSE 0

\* mutant: the status check accepts every account
validate_account_status_any(account) == TRUE

\* TransferService._validate_account_status
validate_account_status(account) == account.status = "ACTIVE"

\* mutant: the funds test refuses a balance equal to the amount
InsufficientFunds_strict(balance, amount, type) ==
    balance <= amount /\ type # "INITIAL_DEPOSIT"

\* the sufficient-funds test of TransferService.create_transfer
InsufficientFunds(balance, amount, type) ==
    balance < amount /\ type # "INITIAL_DEPOSIT"

\* mutant: the source update is skipped for every type
debits_source_never(type) == FALSE

\* mutant: the source update is made for every type
debits_source_always(type) == TRUE

\* "if request.transfer_type != TransferType.INITIAL_DEPOSIT" in front of the
\* source update of TransferService.create_transfer
debits_source(type) == type # "INITIAL_DEPOSIT"

\* mutant: the debit adds instead of subtracting
new_source_balance_added(balance, amount) == balance + amount

\* new_source_balance / new_destination_balance of TransferService.create_transfer
new_source_balance(balance, amount) == balance - amount
new_destination_balance(balance, amount) == balance + amount

\* mutant: the table has no CHECK constraint
check_positive_balance_absent(balance) == TRUE

\* the CHECK constraint check_positive_balance of table accounts
check_positive_balance(balance) == balance >= 0

\* mutant: the column is not declared unique
idempotency_key_unique_absent(ts, key) == TRUE

\* the UNIQUE constraint on transfers.idempotency_key
idempotency_key_unique(ts, key) == \A i \in 1 .. Len(ts) : ts[i].key # key

\* mutant: update_account_balance does not commit, the row lock stays held
commit_releases_never(l, a) == l

\* session.commit() at the end of AccountRepo.update_account_balance ends the
\* transaction and with it the row lock of SELECT ... FOR UPDATE.
commit_releases(l, a) == [l EXCEPT ![a] = 0]

\* session.rollback() of a failed request gives up every row lock it holds.
rollback_releases(l, r) == [a \in DOMAIN l |-> IF l[a] = r THEN 0 ELSE l[a]]

\* mutant: the UPDATE has no WHERE clause and writes every account row
update_account_balance_all(accts, id, new_balance, loaded_version) ==
    [a \in DOMAIN accts |->
        [accts[a] EXCEPT !.balance = new_balance, !.version = loaded_version + 1]]

\* AccountRepo.update_account_balance, the write: the ORM object carries the
\* version it was last loaded with; the UPDATE sets balance and version + 1.
update_account_balance(accts, id, new_balance, loaded_version) ==
    [accts EXCEPT ![id].balance = new_balance, ![id].version = loaded_version + 1]

\* AccountDB(...) of AccountService.create_account
NewAccount(cust) ==
    [balance |-> 0, version |-> 1, status |-> "ACTIVE", customer |-> cust]

\* TransferDB.created_at has default=get_timestamp(): the call is made once,
\* when the module is imported, and its value is the default of every row the
\* process inserts.  Neither service passes created_at.
created_at_default == 0

\* TransferDB(...) of TransferService.create_transfer
PendingTransfer(src, dst, amount, key, type) ==
    [src |-> src, dst |-> dst, amount |-> amount, key |-> key, type |-> type,
     status |-> "PENDING", is_initial_deposit |-> FALSE,
     created_at |-> created_at_default]

\* mutant: the initial-deposit row is built with the default transfer type
InitialDepositTransfer_standard(acct, amount, fresh) ==
    [src |-> acct, dst |-> acct, amount |-> amount, key |-> 0 - fresh,
     type |-> "STANDARD", status |-> "COMPLETED", is_initial_deposit |-> TRUE,
     created_at |-> created_at_default]

\* TransferDB(...) of AccountService.create_account; its key is a fresh uuid4,
\* modelled as a negative number no client key equals.
InitialDepositTransfer(acct, amount, fresh) ==
    [src |-> acct, dst |-> acct, amount |-> amount, key |-> 0 - fresh,
     type |-> "INITIAL_DEPOSIT", status |-> "COMPLETED", is_initial_deposit |-> TRUE,
     created_at |-> created_at_default]

\* mutant: the status written is the wrong member of TransferStatus
update_transfer_status_failed(ts, tid, status) == [ts EXCEPT ![tid].status = "FAILED"]

\* TransferRepo.update_transfer_status
update_transfer_status(ts, tid, status) == [ts EXCEPT ![tid].status = status]

\* ---- requests --------------------------------------------------------------
IdleReq ==
    [pc |-> "idle", op |-> "none", seq |-> 0, cust |-> 0, src |-> 0, dst |-> 0,
     amount |-> 0, key |-> 0, type |-> "STANDARD", tid |-> 0,
     snapBal |-> 0, snapVer |-> 0,
     result |-> "none", resStatus |-> "none",
     pre |-> <<>>, conc |-> {}, writes |-> 0, fresh |-> FALSE, name |-> ""]

InFlight(r) == req[r].pc \notin {"idle", "done"}

Init ==
    /\ customers = {SeedCustomer}
    /\ accounts = [a \in {SeedInactiveAccount} \cup SeedActiveAccounts |->
                      IF a = SeedInactiveAccount
                      THEN [balance |-> 0, version |-> 1, status |-> "INACTIVE",
                            customer |-> SeedCustomer]
                      ELSE [balance |-> SeedBalance, version |-> 1, status |-> "ACTIVE",
                            customer |-> SeedCustomer]]
    /\ transfers = <<>>
    /\ lock = [a \in AcctIds |-> 0]
    /\ req = [r \in Req |-> IdleReq]
    /\ opCount = 0
    /\ faults = 0
    /\ appliedBy = [k \in Keys |-> {}]
    /\ keysSeen = 0
    /\ customerName = (SeedCustomer :> SeedCustomerName)
    /\ history = <<>>

\* A request arrives in slot r, the first slot with no request in flight (slots
\* are interchangeable sessions): it gets the next sequence number, a snapshot
\* of the accounts (history, for stating before/after), and every request in
\* flight is recorded as concurrent with it and it with them.
CanArrive(r) ==
    /\ ~InFlight(r)
    /\ \A s \in Req : s < r => InFlight(s)
    /\ opCount < MaxOps

Arrive(r, fields) ==
    LET n == opCount + 1
        others == {s \in Req \ {r} : InFlight(s)}
        base == [IdleReq EXCEPT !.seq = n, !.pre = accounts,
                                !.conc = {req[s].seq : s \in others}]
    IN  /\ CanArrive(r)
        /\ opCount' = n
        /\ req' = [s \in Req |->
                     IF s = r THEN fields @@ base
                     ELSE IF s \in others THEN [req[s] EXCEPT !.conc = @ \cup {n}]
                     ELSE req[s]]

\* the request of slot r returns `result` to its caller
Return(r, result, tid, status) ==
    req' = [req EXCEPT ![r].pc = "done", ![r].result = result,
                       ![r].tid = tid, ![r].resStatus = status]

Goto(r, pc) == req' = [req EXCEPT ![r].pc = pc]

NoteWrite(r) ==
    appliedBy' = IF req[r].key \in Keys
                 THEN [appliedBy EXCEPT ![req[r].key] = @ \cup {req[r].seq}]
                 ELSE appliedBy


\* ---- TransferService.create_transfer --------------------------------------

\* The request is validated, then looked up by its idempotency key; a row found
\* is returned as it is.  (Validation is local; the lookup is the first query.)
CT_Begin(r, src, dst, amount, key, type) ==
    LET v == validate_transfer_request(amount, src, dst, type)
        existing == get_transfer_by_idempotency_key(transfers, key)
        args == [op |-> "transfer", src |-> src, dst |-> dst, amount |-> amount,
                 key |-> key, type |-> type, fresh |-> (existing = 0)]
    IN  /\ key <= keysSeen + 1
        /\ keysSeen' = IF key > keysSeen THEN key ELSE keysSeen
        /\ Arrive(r,
              IF v # "ok"
              THEN [pc |-> "done", result |-> v] @@ args
              ELSE IF existing # 0
              THEN [pc |-> "done", result |-> "Created201", tid |-> existing,
                    resStatus |-> transfers[existing].status] @@ args
              ELSE [pc |-> "load"] @@ args)
        /\ UNCHANGED <<customers, customerName, history, accounts, transfers, lock, faults, appliedBy>>

\* get_account of source and destination, the two status checks and the funds
\* check against the balance just loaded.
CT_Load(r) ==
    LET q == req[r] IN
    /\ q.pc = "load"
    /\ IF q.src \notin DOMAIN accounts \/ q.dst \notin DOMAIN accounts
       THEN Return(r, "AccountNotFound404", 0, "none")
       ELSE IF ~validate_account_status(accounts[q.src])
               \/ ~validate_account_status(accounts[q.dst])
       THEN Return(r, "AccountNotActive400", 0, "none")
       ELSE IF InsufficientFunds(accounts[q.src].balance, q.amount, q.type)
       THEN Return(r, "InsufficientFunds400", 0, "none")
       ELSE Goto(r, "insert")
    /\ UNCHANGED <<customers, customerName, history, accounts, transfers, lock, opCount, faults, appliedBy, keysSeen>>

\* TransferRepo.create_transfer: INSERT of the PENDING row and commit; the
\* unique constraint on the idempotency key refuses a second row with the key.
CT_Insert(r) ==
    LET q == req[r] IN
    /\ q.pc = "insert"
    /\ IF ~idempotency_key_unique(transfers, q.key)
       THEN /\ Return(r, "DuplicateKey400", 0, "none")
            /\ UNCHANGED transfers
       ELSE /\ transfers' = Append(transfers,
                   PendingTransfer(q.src, q.dst, q.amount, q.key, q.type))
            /\ req' = [req EXCEPT ![r].tid = Len(transfers) + 1,
                          ![r].pc = IF debits_source(q.type)
                                    THEN "readSrc" ELSE "readDst"]
    /\ UNCHANGED <<customers, customerName, history, accounts, lock, opCount, faults, appliedBy, keysSeen>>

\* source_account.current_balance: the object expired at the commit of the
\* insert, so the attribute is read again from the committed row.
CT_ReadSrc(r) ==
    /\ req[r].pc = "readSrc"
    /\ req' = [req EXCEPT ![r].pc = "lockSrc",
                          ![r].snapBal = accounts[req[r].src].balance,
                          ![r].snapVer = accounts[req[r].src].version]
    /\ UNCHANGED <<customers, customerName, history, accounts, transfers, lock, opCount, faults, appliedBy, keysSeen>>

\* update_account_balance(source): SELECT ... FOR UPDATE waits for the row lock
CT_LockSrc(r) ==
    /\ req[r].pc = "lockSrc"
    /\ lock[req[r].src] = 0
    /\ lock' = [lock EXCEPT ![req[r].src] = r]
    /\ Goto(r, "writeSrc")
    /\ UNCHANGED <<customers, customerName, history, accounts, transfers, opCount, faults, appliedBy, keysSeen>>

\* update_account_balance(source): UPDATE, flush (the CHECK constraint), commit
CT_WriteSrc(r) ==
    LET q == req[r]
        nb == new_source_balance(q.snapBal, q.amount)
    IN
    /\ q.pc = "writeSrc"
    /\ IF check_positive_balance(nb)
       THEN /\ accounts' = update_account_balance(accounts, q.src, nb, q.snapVer)
            /\ lock' = commit_releases(lock, q.src)
            /\ req' = [req EXCEPT ![r].pc = "readDst", ![r].writes = @ + 1]
            /\ NoteWrite(r)
       ELSE /\ lock' = rollback_releases(lock, r)
            /\ Return(r, "DatabaseError500", q.tid, "none")
            /\ UNCHANGED <<accounts, appliedBy>>
    /\ UNCHANGED <<customers, customerName, history, transfers, opCount, faults, keysSeen>>

\* destination_account.current_balance, read again after the last commit
CT_ReadDst(r) ==
    /\ req[r].pc = "readDst"
    /\ req' = [req EXCEPT ![r].pc = "lockDst",
                          ![r].snapBal = accounts[req[r].dst].balance,
                          ![r].snapVer = accounts[req[r].dst].version]
    /\ UNCHANGED <<customers, customerName, history, accounts, transfers, lock, opCount, faults, appliedBy, keysSeen>>

\* update_account_balance(destination): SELECT ... FOR UPDATE
CT_LockDst(r) ==
    /\ req[r].pc = "lockDst"
    /\ lock[req[r].dst] = 0
    /\ lock' = [lock EXCEPT ![req[r].dst] = r]
    /\ Goto(r, "writeDst")
    /\ UNCHANGED <<customers, customerName, history, accounts, transfers, opCount, faults, appliedBy, keysSeen>>

\* update_account_balance(destination): UPDATE, flush, commit
CT_WriteDst(r) ==
    LET q == req[r]
        nb == new_destination_balance(q.snapBal, q.amount)
    IN
    /\ q.pc = "writeDst"
    /\ IF check_positive_balance(nb)
       THEN /\ accounts' = update_account_balance(accounts, q.dst, nb, q.snapVer)
            /\ lock' = commit_releases(lock, q.dst)
            /\ req' = [req EXCEPT ![r].pc = "complete", ![r].writes = @ + 1]
            /\ NoteWrite(r)
       ELSE /\ lock' = rollback_releases(lock, r)
            /\ Return(r, "DatabaseError500", q.tid, "none")
            /\ UNCHANGED <<accounts, appliedBy>>
    /\ UNCHANGED <<customers, customerName, history, transfers, opCount, faults, keysSeen>>

\* update_transfer_status(transfer.id, COMPLETED) and the response
CT_Complete(r) ==
    /\ req[r].pc = "complete"
    /\ transfers' = update_transfer_status(transfers, req[r].tid, "COMPLETED")
    /\ Return(r, "Created201", req[r].tid, "COMPLETED")
    /\ UNCHANGED <<customers, customerName, history, accounts, lock, opCount, faults, appliedBy, keysSeen>>

\* A storage call of the request raises (connection lost, statement timeout):
\* the repository turns it into an error, TransferRepo.transaction rolls back
\* what is not yet committed, and the request answers 500.
CT_Fault(r) ==
    /\ req[r].op = "transfer"
    /\ InFlight(r)
    /\ faults < MaxFaults
    /\ faults' = faults + 1
    /\ lock' = rollback_releases(lock, r)
    /\ Return(r, "DatabaseError500", req[r].tid, "none")
    /\ UNCHANGED <<customers, customerName, history, accounts, transfers, opCount, appliedBy, keysSeen>>


\* ---- AccountService.create_account ----------------------------------------

\* accounts the service has inserted or is about to insert
AccountsClaimed ==
    Cardinality(DOMAIN accounts \ ({SeedInactiveAccount} \cup SeedActiveAccounts))
      + Cardinality({s \in Req : req[s].pc = "caInsert"})

\* mutant: the customer is looked up before the deposit is checked
create_account_checks_lookup_first(deposit, cust, custs) ==
    IF cust \notin custs THEN "CustomerNotFound404"
    ELSE IF deposit < 0 THEN "NegativeDeposit400"
    ELSE "ok"

\* the checks that open AccountService.create_account: the deposit, then
\* customer_repo.get_customer
create_account_checks(deposit, cust, custs) ==
    IF deposit < 0 THEN "NegativeDeposit400"
    ELSE IF cust \notin custs THEN "CustomerNotFound404"
    ELSE "ok"

\* the deposit check, then customer_repo.get_customer
CA_Begin(r, cust, deposit) ==
    LET args == [op |-> "account", cust |-> cust, amount |-> deposit,
                 type |-> "INITIAL_DEPOSIT"]
        v == create_account_checks(deposit, cust, customers)
    IN  /\ AccountsClaimed < MaxAccounts
        /\ Arrive(r,
              IF v # "ok"
              THEN [pc |-> "done", result |-> v] @@ args
              ELSE [pc |-> "caInsert"] @@ args)
        /\ UNCHANGED <<customers, customerName, history, accounts, transfers, lock, faults, appliedBy, keysSeen>>

\* AccountRepo.create_account: INSERT of the account row and commit; without a
\* deposit the request is done.  The new id is a fresh uuid4: the next unused one.
CA_Insert(r) ==
    LET id == Cardinality(DOMAIN accounts) IN
    /\ req[r].pc = "caInsert"
    /\ accounts' = accounts @@ (id :> NewAccount(req[r].cust))
    /\ IF req[r].amount > 0
       THEN req' = [req EXCEPT ![r].pc = "caTransfer", ![r].src = id, ![r].dst = id]
       ELSE req' = [req EXCEPT ![r].pc = "done", ![r].result = "AccountCreated201",
                               ![r].src = id, ![r].dst = id]
    /\ UNCHANGED <<customers, customerName, history, transfers, lock, opCount, faults, appliedBy, keysSeen>>

\* TransferRepo.create_transfer of the initial-deposit row, and commit
CA_Transfer(r) ==
    /\ req[r].pc = "caTransfer"
    /\ transfers' = Append(transfers,
            InitialDepositTransfer(req[r].src, req[r].amount, Len(transfers) + 1))
    /\ req' = [req EXCEPT ![r].pc = "caRead", ![r].tid = Len(transfers) + 1]
    /\ UNCHANGED <<customers, customerName, history, accounts, lock, opCount, faults, appliedBy, keysSeen>>

\* account.current_balance, read again after the commit of the transfer row
CA_Read(r) ==
    /\ req[r].pc = "caRead"
    /\ req' = [req EXCEPT ![r].pc = "caLock",
                          ![r].snapBal = accounts[req[r].dst].balance,
                          ![r].snapVer = accounts[req[r].dst].version]
    /\ UNCHANGED <<customers, customerName, history, accounts, transfers, lock, opCount, faults, appliedBy, keysSeen>>

\* update_account_balance(account): SELECT ... FOR UPDATE
CA_Lock(r) ==
    /\ req[r].pc = "caLock"
    /\ lock[req[r].dst] = 0
    /\ lock' = [lock EXCEPT ![req[r].dst] = r]
    /\ Goto(r, "caWrite")
    /\ UNCHANGED <<customers, customerName, history, accounts, transfers, opCount, faults, appliedBy, keysSeen>>

\* update_account_balance(account): UPDATE, flush, commit, and the response
CA_Write(r) ==
    LET q == req[r]
        nb == q.snapBal + q.amount
    IN
    /\ q.pc = "caWrite"
    /\ IF check_positive_balance(nb)
       THEN /\ accounts' = update_account_balance(accounts, q.dst, nb, q.snapVer)
            /\ lock' = commit_releases(lock, q.dst)
            /\ req' = [req EXCEPT ![r].pc = "done", ![r].result = "AccountCreated201",
                                  ![r].writes = @ + 1]
       ELSE /\ lock' = rollback_releases(lock, r)
            /\ Return(r, "CreateFailed500", q.tid, "none")
            /\ UNCHANGED accounts
    /\ UNCHANGED <<customers, customerName, history, transfers, opCount, faults, appliedBy, keysSeen>>

\* A storage call of create_account raises: the except clause answers 500.
\* Nothing committed earlier is undone.
CA_Fault(r) ==
    /\ req[r].op = "account"
    /\ InFlight(r)
    /\ faults < MaxFaults
    /\ faults' = faults + 1
    /\ lock' = rollback_releases(lock, r)
    /\ Return(r, "CreateFailed500", req[r].tid, "none")
    /\ UNCHANGED <<customers, customerName, history, accounts, transfers, opCount, appliedBy, keysSeen>>

\* ---- CustomerService.create_customer ---------------------------------------

\* CustomerDB.id has default=get_uuid(): the call is made once, when the module
\* is imported, so every customer a server process inserts gets that process's
\* one default id.  CustomerRepo.create_customer passes no id.
DefaultCustomerIds == {SeedCustomer + p : p \in 1 .. MaxProcs}

CustomerNames == {SeedCustomerName, "Mira Okafor"}

\* CustomerRepo.create_customer, the query by name: a row found is a 400.  The
\* request runs in the process whose default customer id is `id`.
CC_Begin(r, name, id) ==
    LET args == [op |-> "customer", name |-> name, cust |-> id]
        found == \E c \in customers : customerName[c] = name
    IN  /\ Arrive(r,
              IF found
              THEN [pc |-> "done", result |-> "CustomerExists400"] @@ args
              ELSE [pc |-> "ccInsert"] @@ args)
        /\ UNCHANGED <<customers, customerName, history, accounts, transfers, lock,
                       faults, appliedBy, keysSeen>>

\* CustomerRepo.create_customer, session.add and commit: the INSERT carries the
\* process's default id; the primary key refuses an id that is already there,
\* and nothing catches that error (500).  The name column has no constraint.
CC_Insert(r) ==
    LET q == req[r] IN
    /\ q.pc = "ccInsert"
    /\ IF q.cust \in customers
       THEN /\ Return(r, "InternalError500", 0, "none")
            /\ UNCHANGED <<customers, customerName>>
       ELSE /\ customers' = customers \cup {q.cust}
            /\ customerName' = customerName @@ (q.cust :> q.name)
            /\ Return(r, "CustomerCreated200", 0, "none")
    /\ UNCHANGED <<history, accounts, transfers, lock, opCount, faults, appliedBy, keysSeen>>


\* ---- TransferService.get_account_transfer_history ---------------------------

\* limit of TransferRepo.get_account_transfers (offset is 0)
HistoryLimit == 100

\* TransferRepo.get_account_transfers: the rows naming the account, ORDER BY
\* created_at DESC, LIMIT.  Rows with equal created_at come in whatever order
\* the database produces: every order of them is a possible result.  A result
\* is the sequence of the ids of the rows returned.
get_account_transfers(ts, a) ==
    LET rows == {i \in 1 .. Len(ts) : ts[i].src = a \/ ts[i].dst = a}
        n == Cardinality(rows)
        sorted == {f \in [1 .. n -> rows] :
                     /\ \A i, j \in 1 .. n : f[i] = f[j] => i = j
                     /\ \A i, j \in 1 .. n :
                          i < j => ts[f[i]].created_at >= ts[f[j]].created_at}
    IN  {SubSeq(f, 1, IF n < HistoryLimit THEN n ELSE HistoryLimit) : f \in sorted}

\* get_account_transfer_history(account_id): get_account (404 when missing),
\* then the query; the response is recorded in `history`.
GetHistory(a) ==
    /\ Len(history) < MaxReads
    /\ IF a \notin DOMAIN accounts
       THEN history' = Append(history,
                [account |-> a, result |-> "AccountNotFound404", rows |-> <<>>])
       ELSE \E h \in get_account_transfers(transfers, a) :
               history' = Append(history,
                   [account |-> a, result |-> "Ok200", rows |-> h])
    /\ UNCHANGED <<customers, customerName, accounts, transfers, lock, req, opCount,
                   faults, appliedBy, keysSeen>>


\* ---- the service ------------------------------------------------------------
Amounts == 0 .. MaxAmount
Deposits == -1 .. MaxAmount
CustomerIds == {SeedCustomer, SeedCustomer + 1}

Step(r) ==
    \/ CT_Load(r)
    \/ CT_Insert(r)
    \/ CT_ReadSrc(r)
    \/ CT_LockSrc(r)
    \/ CT_WriteSrc(r)
    \/ CT_ReadDst(r)
    \/ CT_LockDst(r)
    \/ CT_WriteDst(r)
    \/ CT_Complete(r)
    \/ CA_Insert(r)
    \/ CA_Transfer(r)
    \/ CA_Read(r)
    \/ CA_Lock(r)
    \/ CA_Write(r)
    \/ CC_Insert(r)

Begin(r) ==
    /\ CanArrive(r)
    /\ \/ \E src, dst \in AcctIds, amount \in Amounts, key \in Keys, type \in TransferType :
             CT_Begin(r, src, dst, amount, key, type)
       \/ \E cust \in CustomerIds, deposit \in Deposits : CA_Begin(r, cust, deposit)
       \/ \E name \in CustomerNames, id \in DefaultCustomerIds : CC_Begin(r, name, id)

Fault(r) ==
    \/ CT_Fault(r)
    \/ CA_Fault(r)

Read == \E a \in AcctIds : GetHistory(a)

Next ==
    \/ \E r \in Req : Begin(r) \/ Step(r) \/ Fault(r)
    \/ Read

Spec == Init /\ [][Next]_vars


\* Without storage failures, and with the scheduling the runtime and the
\* database give: a request whose next step is possible eventually takes it.
\* History reads are left out: they take no lock and write nothing but their
\* own response, so they cannot delay a request.
NextLive == \E r \in Req : Begin(r) \/ Step(r)

LiveSpec == Init /\ [][NextLive]_vars /\ \A r \in Req : WF_vars(Step(r))

\* ---- vocabulary of the properties ---------------------------------------------
Seqs == 1 .. MaxOps

\* slot r returns to its caller in this step, after at least one step in flight
Returns(r) == InFlight(r) /\ req'[r].pc = "done"

\* a request arrives in slot r in this step
Arrives(r) == opCount' = opCount + 1 /\ req'[r].seq = opCount'

\* the step is a storage failure injected into some request
FaultStep == faults' # faults

\* balance and version of every account
Ledger(accts) == [a \in DOMAIN accts |-> <<accts[a].balance, accts[a].version>>]

TransferErrors ==
    {"InvalidAmount400", "SameAccount400", "AccountNotFound404", "AccountNotActive400",
     "InsufficientFunds400", "DuplicateKey400", "DatabaseError500"}

\* ---- C1 --------------------------------------------------------------------
\* C1: a STANDARD create_transfer with a fresh key between distinct ACTIVE
\* accounts that returns successfully (no other request running beside it) has
\* debited the source by amount, credited the destination by amount, kept the
\* sum of the two balances, and returns the transfer as COMPLETED.
C1_TransferMovesFunds ==
    [][\A r \in Req :
         (/\ Returns(r)
          /\ req[r].op = "transfer"
          /\ req[r].type = "STANDARD"
          /\ req'[r].conc = {}
          /\ req'[r].result = "Created201")
         =>
         LET q == req[r] IN
         /\ accounts'[q.src].balance = q.pre[q.src].balance - q.amount
         /\ accounts'[q.dst].balance = q.pre[q.dst].balance + q.amount
         /\ accounts'[q.src].balance + accounts'[q.dst].balance
                = q.pre[q.src].balance + q.pre[q.dst].balance
         /\ req'[r].resStatus = "COMPLETED"
         /\ transfers'[req'[r].tid].status = "COMPLETED"
         /\ transfers'[req'[r].tid].key = q.key]_vars

C1_Witness ==
    \E r \in Req :
        /\ req[r].pc = "done" /\ req[r].op = "transfer" /\ req[r].type = "STANDARD"
        /\ req[r].result = "Created201" /\ req[r].conc = {} /\ req[r].writes = 2
        /\ req[r].src # req[r].dst

\* ---- C2 --------------------------------------------------------------------
\* C2: when a create_transfer has returned successfully and the same request
\* (same key, source, destination, amount, type) is submitted again, the second
\* call returns the same transfer id and changes no balance, no version and no
\* transfer row.
SameRequest(p, q) ==
    /\ p.key = q.key /\ p.src = q.src /\ p.dst = q.dst
    /\ p.amount = q.amount /\ p.type = q.type

C2_ReplayIsIdempotent ==
    [][\A s, r \in Req :
         (/\ req[s].pc = "done" /\ req[s].op = "transfer"
          /\ req[s].result = "Created201"
          /\ Arrives(r) /\ req'[r].op = "transfer"
          /\ SameRequest(req[s], req'[r]))
         =>
         /\ req'[r].pc = "done"
         /\ req'[r].result = "Created201"
         /\ req'[r].tid = req[s].tid
         /\ accounts' = accounts
         /\ transfers' = transfers]_vars

C2_Witness ==
    \E r \in Req :
        /\ req[r].pc = "done" /\ req[r].op = "transfer" /\ req[r].result = "Created201"
        /\ req[r].writes = 0 /\ req[r].conc = {} /\ req[r].seq = 2
        /\ req[r].tid # 0 /\ transfers[req[r].tid].status = "COMPLETED"
        /\ transfers[req[r].tid].type = "STANDARD"
        /\ accounts[req[r].src].balance = req[r].pre[req[r].src].balance
        /\ accounts[req[r].src].balance = SeedBalance - req[r].amount

\* ---- C3 --------------------------------------------------------------------
\* C3: when a create_transfer (running alone) returns an error from its
\* transactional block, every account has the balance and version it had before
\* the request.
C3_FailureRestoresLedger ==
    [][\A r \in Req :
         (/\ Returns(r)
          /\ req[r].op = "transfer"
          /\ req'[r].conc = {}
          /\ req'[r].result \in TransferErrors)
         => Ledger(accounts') = Ledger(req[r].pre)]_vars

\* ---- C4 --------------------------------------------------------------------
\* C4: a create_transfer that inserted its row and then returned an error leaves
\* no PENDING transfer row with its idempotency key.
C4_NoPendingAfterFailure ==
    \A r \in Req :
        (/\ req[r].pc = "done" /\ req[r].op = "transfer"
         /\ req[r].result \in TransferErrors
         /\ req[r].tid # 0)
        => ~ \E i \in 1 .. Len(transfers) :
               transfers[i].key = req[r].key /\ transfers[i].status = "PENDING"

\* ---- C5 --------------------------------------------------------------------
\* C5: in every reachable state every account's balance is >= 0.
C5_BalanceNonNegative ==
    \A a \in DOMAIN accounts : accounts[a].balance >= 0

\* two requests debiting one source raced, and the CHECK constraint refused the
\* second debit
C5_Witness ==
    \E r \in Req :
        /\ req[r].pc = "done" /\ req[r].op = "transfer"
        /\ req[r].result = "DatabaseError500" /\ faults = 0
        /\ accounts[req[r].src].balance = 0


\* ---- C6 --------------------------------------------------------------------
\* C6: a STANDARD create_transfer with a fresh key between ACTIVE accounts,
\* running alone and meeting no storage failure: when the source balance is
\* less than amount it returns 400 InsufficientFunds, has inserted no transfer
\* row and leaves every balance and version as it was; when the source balance
\* equals amount it is accepted and leaves the source at balance 0.
C6_Applies(q) ==
    /\ q.op = "transfer" /\ q.type = "STANDARD"
    /\ q.src \in DOMAIN q.pre /\ q.dst \in DOMAIN q.pre
    /\ q.pre[q.src].status = "ACTIVE" /\ q.pre[q.dst].status = "ACTIVE"

C6_InsufficientFunds ==
    [][\A r \in Req :
         (/\ Returns(r) /\ ~FaultStep
          /\ C6_Applies(req[r])
          /\ req'[r].conc = {})
         =>
         LET q == req[r]
             available == q.pre[q.src].balance
         IN  /\ available < q.amount =>
                   /\ req'[r].result = "InsufficientFunds400"
                   /\ req'[r].tid = 0
                   /\ transfers' = transfers
                   /\ \A i \in 1 .. Len(transfers') : transfers'[i].key # q.key
                   /\ Ledger(accounts') = Ledger(q.pre)
             /\ available = q.amount =>
                   /\ req'[r].result = "Created201"
                   /\ accounts'[q.src].balance = 0]_vars

C6_Witness ==
    \E r \in Req :
        /\ req[r].pc = "done" /\ C6_Applies(req[r]) /\ req[r].conc = {}
        /\ req[r].pre[req[r].src].balance < req[r].amount
        /\ req[r].result = "InsufficientFunds400"

\* ---- C7 --------------------------------------------------------------------
\* C7: two concurrent STANDARD create_transfer requests with distinct keys that
\* move funds between the same two accounts in opposite directions never wait
\* for each other for ever: each of them returns, and when both had sufficient
\* funds and no third request ran beside them, both return their transfer
\* COMPLETED.
Opposite(p, q) ==
    /\ p.op = "transfer" /\ q.op = "transfer"
    /\ p.type = "STANDARD" /\ q.type = "STANDARD"
    /\ p.src = q.dst /\ p.dst = q.src /\ p.src # p.dst
    /\ p.key # q.key

C7_Racing(r, n) ==
    /\ req[r].seq = n /\ InFlight(r)
    /\ \E s \in Req \ {r} : InFlight(s) /\ Opposite(req[r], req[s])

C7_Returned(r, n) == req[r].seq = n /\ req[r].pc = "done"

C7_Funded(q) ==
    /\ q.fresh /\ q.amount > 0
    /\ q.src \in DOMAIN q.pre /\ q.dst \in DOMAIN q.pre
    /\ q.pre[q.src].status = "ACTIVE" /\ q.pre[q.dst].status = "ACTIVE"
    /\ q.pre[q.src].balance >= q.amount

\* r and s raced with each other and with nothing else, and both have returned
C7_PairDone(r, s) ==
    /\ r # s
    /\ \A t \in Req : ~InFlight(t)
    /\ req[r].pc = "done" /\ req[s].pc = "done"
    /\ Opposite(req[r], req[s])
    /\ req[r].conc = {req[s].seq} /\ req[s].conc = {req[r].seq}
    /\ C7_Funded(req[r]) /\ C7_Funded(req[s])

C7_OppositeTransfersComplete ==
    /\ \A r \in Req : \A n \in Seqs : C7_Racing(r, n) ~> C7_Returned(r, n)
    /\ [](\A r, s \in Req :
            C7_PairDone(r, s) =>
               /\ req[r].result = "Created201" /\ req[r].resStatus = "COMPLETED"
               /\ req[s].result = "Created201" /\ req[s].resStatus = "COMPLETED")

\* both requests are at a row lock: one holds the lock the other is waiting for
C7_Witness ==
    \E r, s \in Req :
        /\ r # s /\ InFlight(r) /\ InFlight(s) /\ Opposite(req[r], req[s])
        /\ req[r].pc = "writeSrc" /\ lock[req[r].src] = r
        /\ req[s].pc = "lockDst" /\ req[s].dst = req[r].src

\* ---- C8 --------------------------------------------------------------------
\* C8: when two concurrent STANDARD create_transfer requests with distinct
\* keys, A to B for x and B to A for y, have both completed (and nothing else
\* ran beside or after them), the balances are A = A0 - x + y and
\* B = B0 + x - y: both are applied, each exactly once.
C8_BothApplied ==
    \A r, s \in Req :
        (/\ r # s
         /\ \A t \in Req : ~InFlight(t)
         /\ req[r].pc = "done" /\ req[s].pc = "done"
         /\ Opposite(req[r], req[s])
         /\ req[r].result = "Created201" /\ req[s].result = "Created201"
         /\ req[r].writes = 2 /\ req[s].writes = 2
         /\ req[r].seq < req[s].seq /\ opCount = req[s].seq
         /\ req[r].conc = {req[s].seq} /\ req[s].conc = {req[r].seq})
        =>
        LET A == req[r].src
            B == req[r].dst
            x == req[r].amount
            y == req[s].amount
        IN  /\ accounts[A].balance = req[r].pre[A].balance - x + y
            /\ accounts[B].balance = req[r].pre[B].balance + x - y

\* ---- C9 --------------------------------------------------------------------
\* C9: no two transfer rows ever carry the same idempotency key, the requests
\* that wrote a balance under one key are at most one, and a request refused at
\* the insert by the unique constraint changes no account.
KeysUnique(ts) ==
    \A i, j \in 1 .. Len(ts) : ts[i].key = ts[j].key => i = j

C9_OneTransferPerKey ==
    [][/\ KeysUnique(transfers')
       /\ \A k \in Keys : Cardinality(appliedBy'[k]) <= 1
       /\ \A r \in Req :
            (Returns(r) /\ req'[r].result = "DuplicateKey400")
            => /\ accounts' = accounts
               /\ transfers' = transfers
               /\ req'[r].writes = 0]_vars

\* two requests raced with one key: one inserted and applied, the other was
\* refused at the insert
C9_Witness ==
    \E r, s \in Req :
        /\ r # s
        /\ req[r].pc = "done" /\ req[r].result = "DuplicateKey400"
        /\ req[s].op = "transfer" /\ req[s].key = req[r].key
        /\ req[s].seq \in req[r].conc
        /\ req[s].writes > 0
        /\ appliedBy[req[r].key] = {req[s].seq}

\* ---- C10 -------------------------------------------------------------------
\* C10: a create_account for an existing customer that returns successfully
\* (running alone) has made a new ACTIVE account of that customer whose balance
\* is the initial deposit (0 when it is 0); with a deposit D > 0 exactly one
\* transfer row names the account, of type INITIAL_DEPOSIT, with source =
\* destination = the account and amount D; with deposit 0 no row names it.
RowsOf(ts, a) == {i \in 1 .. Len(ts) : ts[i].src = a \/ ts[i].dst = a}

C10_CreateAccount ==
    [][\A r \in Req :
         (/\ Returns(r)
          /\ req[r].op = "account"
          /\ req'[r].conc = {}
          /\ req'[r].result = "AccountCreated201")
         =>
         LET a == req'[r].dst
             D == req[r].amount
             rows == RowsOf(transfers', a)
         IN  /\ a \notin DOMAIN req[r].pre
             /\ a \in DOMAIN accounts'
             /\ accounts'[a].status = "ACTIVE"
             /\ accounts'[a].customer = req[r].cust
             /\ req[r].cust \in customers
             /\ accounts'[a].balance = D
             /\ D >= 0
             /\ IF D > 0
                THEN /\ Cardinality(rows) = 1
                     /\ \A i \in rows :
                          /\ transfers'[i].type = "INITIAL_DEPOSIT"
                          /\ transfers'[i].src = a /\ transfers'[i].dst = a
                          /\ transfers'[i].amount = D
                ELSE rows = {}]_vars

C10_Witness ==
    \E r \in Req :
        /\ req[r].pc = "done" /\ req[r].op = "account" /\ req[r].conc = {}
        /\ req[r].result = "AccountCreated201" /\ req[r].amount > 0
        /\ accounts[req[r].dst].balance = req[r].amount
        /\ Cardinality(RowsOf(transfers, req[r].dst)) = 1

\* ---- C11 -------------------------------------------------------------------
\* C11: a create_account with a negative initial deposit is answered 400
\* NegativeDeposit, also when its customer does not exist (the deposit is
\* checked first); one with a deposit >= 0 and a customer that does not exist is
\* answered 404 CustomerNotFound; in both cases the request is over at once and
\* no account row and no transfer row has been created.
C11_CreateAccountRejected ==
    [][\A r \in Req :
         (Arrives(r) /\ req'[r].op = "account")
         =>
         LET q == req'[r]
             rejected == /\ q.pc = "done"
                         /\ accounts' = accounts
                         /\ transfers' = transfers
                         /\ q.tid = 0 /\ q.writes = 0
         IN  /\ q.amount < 0 => (q.result = "NegativeDeposit400" /\ rejected)
             /\ (q.amount >= 0 /\ q.cust \notin customers)
                   => (q.result = "CustomerNotFound404" /\ rejected)]_vars

\* a negative deposit for a customer that does not exist was answered 400
C11_Witness ==
    \E r \in Req :
        /\ req[r].pc = "done" /\ req[r].op = "account"
        /\ req[r].amount < 0 /\ req[r].cust \notin customers
        /\ req[r].result = "NegativeDeposit400"
        /\ DOMAIN accounts = {SeedInactiveAccount} \cup SeedActiveAccounts
        /\ transfers = <<>>

\* ---- C12 -------------------------------------------------------------------
\* C12: a create_transfer with amount <= 0 is answered 400 InvalidAmount, and
\* one with amount > 0, source = destination and type STANDARD is answered 400
\* SameAccount, whether or not a row with its idempotency key exists; the
\* request is over at once and no transfer row, balance or version has changed.
C12_InvalidRequestRejected ==
    [][\A r \in Req :
         (Arrives(r) /\ req'[r].op = "transfer")
         =>
         LET q == req'[r]
             rejected == /\ q.pc = "done"
                         /\ accounts' = accounts
                         /\ transfers' = transfers
                         /\ q.tid = 0 /\ q.writes = 0
         IN  /\ q.amount <= 0 => (q.result = "InvalidAmount400" /\ rejected)
             /\ (q.amount > 0 /\ q.src = q.dst /\ q.type = "STANDARD")
                   => (q.result = "SameAccount400" /\ rejected)]_vars

\* an invalid request whose key already has a row was rejected, not replayed
C12_Witness ==
    \E r \in Req :
        /\ req[r].pc = "done" /\ req[r].op = "transfer"
        /\ req[r].result = "InvalidAmount400"
        /\ \E i \in 1 .. Len(transfers) : transfers[i].key = req[r].key

\* ---- C13 -------------------------------------------------------------------
\* C13: when a create_transfer with a fresh key loads its accounts and the
\* source or the destination does not exist, it is answered 404
\* AccountNotFound; when both exist and one of them is not ACTIVE, it is
\* answered 400 AccountNotActive; in both cases it has inserted no transfer row
\* and written no balance or version.
C13_AccountChecks ==
    [][\A r \in Req :
         (req[r].pc = "load" /\ req'[r].pc # "load" /\ ~FaultStep)
         =>
         LET q == req[r]
             missing == q.src \notin DOMAIN accounts \/ q.dst \notin DOMAIN accounts
             inactive == /\ ~missing
                         /\ \/ accounts[q.src].status # "ACTIVE"
                            \/ accounts[q.dst].status # "ACTIVE"
             rejected == /\ req'[r].pc = "done"
                         /\ req'[r].tid = 0 /\ req'[r].writes = 0
                         /\ transfers' = transfers
                         /\ Ledger(accounts') = Ledger(accounts)
         IN  /\ missing => (req'[r].result = "AccountNotFound404" /\ rejected)
             /\ inactive => (req'[r].result = "AccountNotActive400" /\ rejected)]_vars

\* one request named an account that does not exist, another an INACTIVE one
C13_Witness ==
    \E r, s \in Req :
        /\ req[r].pc = "done" /\ req[r].op = "transfer" /\ req[r].fresh
        /\ req[r].result = "AccountNotFound404"
        /\ (req[r].src \notin DOMAIN accounts \/ req[r].dst \notin DOMAIN accounts)
        /\ req[s].pc = "done" /\ req[s].op = "transfer" /\ req[s].fresh
        /\ req[s].result = "AccountNotActive400"
        /\ req[s].src \in SeedActiveAccounts /\ req[s].dst = SeedInactiveAccount
        /\ transfers = <<>>

\* ---- C14 -------------------------------------------------------------------
\* C14: a valid create_transfer whose idempotency key already has a transfer
\* row returns that row with the status it has at that moment, PENDING
\* included, and changes no balance, no version and no transfer row: it neither
\* inserts a row nor completes the PENDING one.
C14_ReplayReturnsRowAsIs ==
    [][\A r \in Req :
         (/\ Arrives(r) /\ req'[r].op = "transfer"
          /\ validate_transfer_request(req'[r].amount, req'[r].src,
                                       req'[r].dst, req'[r].type) = "ok"
          /\ \E i \in 1 .. Len(transfers) : transfers[i].key = req'[r].key)
         =>
         LET i == CHOOSE i \in 1 .. Len(transfers) : transfers[i].key = req'[r].key
         IN  /\ req'[r].pc = "done"
             /\ req'[r].result = "Created201"
             /\ req'[r].tid = i
             /\ req'[r].resStatus = transfers[i].status
             /\ req'[r].writes = 0
             /\ accounts' = accounts
             /\ transfers' = transfers]_vars

\* a replay was answered with a row that is PENDING, and the row still is
C14_Witness ==
    \E r \in Req :
        /\ req[r].pc = "done" /\ req[r].op = "transfer" /\ ~req[r].fresh
        /\ req[r].result = "Created201" /\ req[r].resStatus = "PENDING"
        /\ req[r].tid # 0 /\ transfers[req[r].tid].status = "PENDING"
        /\ req[r].writes = 0

\* ---- C15 -------------------------------------------------------------------
\* C15: every transfer row has status PENDING in the state in which it is
\* inserted, whichever operation inserts it.
C15_InsertedPending ==
    [][\A i \in 1 .. Len(transfers') :
         i > Len(transfers) => transfers'[i].status = "PENDING"]_vars

\* ---- C16 -------------------------------------------------------------------
\* C16: a transfer row is COMPLETED only when the request that inserted it has
\* applied its balance writes: the credit of the destination and, unless the
\* type is INITIAL_DEPOSIT, the debit of the source.  (Stated for the rows whose
\* inserting request is still known: in flight or just returned.)
C16_Inserted(r) ==
    /\ req[r].tid # 0
    /\ req[r].op = "account" \/ (req[r].op = "transfer" /\ req[r].fresh)

C16_CompletedMeansApplied ==
    \A r \in Req :
        (C16_Inserted(r) /\ transfers[req[r].tid].status = "COMPLETED")
        => req[r].writes = IF req[r].type = "INITIAL_DEPOSIT" THEN 1 ELSE 2

\* ---- C17 -------------------------------------------------------------------
\* C17: no step removes a transfer row or changes a row's status other than
\* from PENDING to COMPLETED, so a COMPLETED row stays COMPLETED, and no row
\* ever has status FAILED or CANCELLED.
C17_OnlyPendingToCompleted ==
    [][/\ Len(transfers') >= Len(transfers)
       /\ \A i \in 1 .. Len(transfers) :
            transfers'[i].status # transfers[i].status
            => (transfers[i].status = "PENDING" /\ transfers'[i].status = "COMPLETED")
       /\ \A i \in 1 .. Len(transfers') :
            transfers'[i].status \in {"PENDING", "COMPLETED"}]_vars

\* a row inserted PENDING by a transfer has become COMPLETED
C17_Witness ==
    \E r \in Req :
        /\ req[r].pc = "done" /\ req[r].op = "transfer" /\ req[r].fresh
        /\ req[r].result = "Created201" /\ req[r].tid # 0
        /\ transfers[req[r].tid].status = "COMPLETED"
        /\ transfers[req[r].tid].type = "STANDARD"

\* ---- C18 -------------------------------------------------------------------
\* C18: an account row is inserted with balance 0, version 1 and status
\* ACTIVE; every balance write that update_account_balance commits raises the
\* version of the account it writes by exactly 1; no step lowers a version.
C18_Target(r) == IF req[r].pc = "writeSrc" THEN req[r].src ELSE req[r].dst

C18_VersionCountsWrites ==
    [][/\ \A a \in DOMAIN accounts' \ DOMAIN accounts :
            accounts'[a] = [balance |-> 0, version |-> 1, status |-> "ACTIVE",
                            customer |-> accounts'[a].customer]
       /\ \A a \in DOMAIN accounts : accounts'[a].version >= accounts[a].version
       /\ \A r \in Req :
            req'[r].writes = req[r].writes + 1
            => accounts'[C18_Target(r)].version
                   = accounts[C18_Target(r)].version + 1]_vars

\* ---- C19 -------------------------------------------------------------------
\* C19: while a STANDARD transfer has debited its source and not yet credited
\* its destination, no other request reads either of the two accounts: the
\* half-applied transfer is never visible.
C19_HalfApplied(r) ==
    /\ InFlight(r) /\ req[r].op = "transfer" /\ req[r].type = "STANDARD"
    /\ req[r].writes = 1

\* the accounts request s reads from the store in this step
C19_Reads(s) ==
    IF req'[s].pc = req[s].pc \/ FaultStep THEN {}
    ELSE IF req[s].pc = "load" THEN {req[s].src, req[s].dst}
    ELSE IF req[s].pc = "readSrc" THEN {req[s].src}
    ELSE IF req[s].pc \in {"readDst", "caRead"} THEN {req[s].dst}
    ELSE {}

C19_NoIntermediateStateVisible ==
    [][\A r, s \in Req :
         (r # s /\ C19_HalfApplied(r))
         => C19_Reads(s) \cap {req[r].src, req[r].dst} = {}]_vars

\* ---- C20 -------------------------------------------------------------------
\* C20: two concurrent STANDARD create_transfer requests with distinct fresh
\* keys debit the same source, whose balance covers each amount but not their
\* sum; no storage failure occurs.  When both have returned, at most one has
\* completed, and one that did not complete was answered 400 InsufficientFunds.
C20_Overdrawing(r, s) ==
    LET p == req[r]
        q == req[s]
    IN  /\ r # s /\ p.seq < q.seq
        /\ p.op = "transfer" /\ q.op = "transfer"
        /\ p.type = "STANDARD" /\ q.type = "STANDARD"
        /\ p.fresh /\ q.fresh /\ p.key # q.key
        /\ p.src = q.src
        /\ p.conc = {q.seq} /\ q.conc = {p.seq}
        /\ {p.src, p.dst, q.dst} \subseteq DOMAIN p.pre
        /\ \A a \in {p.src, p.dst, q.dst} : p.pre[a].status = "ACTIVE"
        /\ p.src # p.dst /\ q.src # q.dst
        /\ q.pre[q.src].balance = p.pre[p.src].balance
        /\ p.amount > 0 /\ q.amount > 0
        /\ p.amount <= p.pre[p.src].balance /\ q.amount <= p.pre[p.src].balance
        /\ p.amount + q.amount > p.pre[p.src].balance

C20_AtMostOneCompletes ==
    \A r, s \in Req :
        (/\ C20_Overdrawing(r, s)
         /\ req[r].pc = "done" /\ req[s].pc = "done"
         /\ faults = 0)
        =>
        /\ ~(req[r].result = "Created201" /\ req[s].result = "Created201")
        /\ req[r].result \in {"Created201", "InsufficientFunds400"}
        /\ req[s].result \in {"Created201", "InsufficientFunds400"}

\* ---- C21 -------------------------------------------------------------------
\* C21: in a STANDARD create_transfer the row lock of the source is taken
\* before any balance is written, and the row lock of the destination is taken
\* only after the source has been written and its lock released, whichever of
\* the two account ids is the larger.
C21_SourceLockedFirst ==
    [][\A r \in Req :
         (req[r].op = "transfer" /\ req[r].type = "STANDARD" /\ InFlight(r))
         =>
         LET q == req[r] IN
         /\ (lock'[q.src] = r /\ lock[q.src] # r) => q.writes = 0
         /\ (lock'[q.dst] = r /\ lock[q.dst] # r)
               => (q.writes = 1 /\ lock[q.src] # r)]_vars

\* a transfer from the larger id to the smaller holds the destination lock,
\* its source already written
C21_Witness ==
    \E r \in Req :
        /\ req[r].op = "transfer" /\ req[r].type = "STANDARD"
        /\ req[r].pc = "writeDst" /\ lock[req[r].dst] = r
        /\ req[r].writes = 1 /\ req[r].src > req[r].dst

\* ---- C22 -------------------------------------------------------------------
\* C22: a create_transfer of type INITIAL_DEPOSIT with a fresh key and source
\* = destination = an ACTIVE account, running alone and meeting no storage
\* failure, succeeds whatever the balance (also when it is below the amount),
\* raises the balance by exactly amount and the version by exactly 1.
C22_Applies(q) ==
    /\ q.op = "transfer" /\ q.type = "INITIAL_DEPOSIT"
    /\ q.src = q.dst /\ q.fresh /\ q.amount > 0
    /\ q.src \in DOMAIN q.pre /\ q.pre[q.src].status = "ACTIVE"

C22_InitialDepositCreditsOnly ==
    [][\A r \in Req :
         (/\ Returns(r) /\ ~FaultStep
          /\ C22_Applies(req[r])
          /\ req'[r].conc = {})
         =>
         LET q == req[r] IN
         /\ req'[r].result = "Created201"
         /\ req'[r].resStatus = "COMPLETED"
         /\ accounts'[q.src].balance = q.pre[q.src].balance + q.amount
         /\ accounts'[q.src].version = q.pre[q.src].version + 1
         /\ req'[r].writes = 1]_vars

\* the deposit succeeded on an account whose balance was below the amount
C22_Witness ==
    \E r \in Req :
        /\ req[r].pc = "done" /\ C22_Applies(req[r]) /\ req[r].conc = {}
        /\ req[r].result = "Created201"
        /\ req[r].pre[req[r].src].balance < req[r].amount
        /\ accounts[req[r].src].balance = req[r].pre[req[r].src].balance + req[r].amount

\* ---- C23 -------------------------------------------------------------------
\* C23: in every reachable state every transfer row whose source is its
\* destination has type INITIAL_DEPOSIT.
C23_SelfTransferIsInitialDeposit ==
    \A i \in 1 .. Len(transfers) :
        transfers[i].src = transfers[i].dst => transfers[i].type = "INITIAL_DEPOSIT"

\* a self-referential row exists, and a STANDARD self-transfer was refused
C23_Witness ==
    /\ \E i \in 1 .. Len(transfers) : transfers[i].src = transfers[i].dst
    /\ \E r \in Req :
          /\ req[r].pc = "done" /\ req[r].op = "transfer"
          /\ req[r].result = "SameAccount400"

\* ---- C24 -------------------------------------------------------------------
\* C24: a get_account_transfer_history of an existing account answers with
\* exactly the transfer rows naming the account as source or destination (at
\* most the limit), the later-created row always before the earlier-created.
\* (A row's id is its position in insertion order.)
C24_HistoryNewestFirst ==
    [][\A k \in 1 .. Len(history') :
         (k > Len(history) /\ history'[k].result = "Ok200")
         =>
         LET h == history'[k].rows
             a == history'[k].account
             rows == {i \in 1 .. Len(transfers) :
                         transfers[i].src = a \/ transfers[i].dst = a}
         IN  /\ {h[i] : i \in 1 .. Len(h)} \subseteq rows
             /\ Len(h) = (IF Cardinality(rows) < HistoryLimit
                          THEN Cardinality(rows) ELSE HistoryLimit)
             /\ \A i, j \in 1 .. Len(h) : i < j => h[i] > h[j]]_vars

\* ---- C25 -------------------------------------------------------------------
\* C25: no step leaves two customer rows with the same name, and a
\* create_customer whose name is already in the table is answered 400 and
\* inserts nothing.
C25_CustomerNamesUnique ==
    [][/\ \A c, d \in customers' :
            customerName'[c] = customerName'[d] => c = d
       /\ \A r \in Req :
            (/\ Arrives(r) /\ req'[r].op = "customer"
             /\ \E c \in customers : customerName[c] = req'[r].name)
            => /\ req'[r].pc = "done"
               /\ req'[r].result = "CustomerExists400"
               /\ customers' = customers]_vars

\* ---- C26 -------------------------------------------------------------------
\* C26: whenever no request is in flight, each account's balance is its opening
\* balance (0 for an account the service created, the seeded balance for a
\* seeded one) plus the amounts of the COMPLETED transfers to it minus the
\* amounts of the COMPLETED STANDARD transfers from it.
RECURSIVE C26_Net(_, _, _)
C26_Net(ts, a, n) ==
    IF n = 0 THEN 0
    ELSE C26_Net(ts, a, n - 1)
         + (IF ts[n].status = "COMPLETED" /\ ts[n].dst = a THEN ts[n].amount ELSE 0)
         - (IF ts[n].status = "COMPLETED" /\ ts[n].type = "STANDARD" /\ ts[n].src = a
            THEN ts[n].amount ELSE 0)

C26_Opening(a) == IF a \in SeedActiveAccounts THEN SeedBalance ELSE 0

C26_LedgerConsistent ==
    (\A r \in Req : ~InFlight(r))
    => \A a \in DOMAIN accounts :
          accounts[a].balance = C26_Opening(a) + C26_Net(transfers, a, Len(transfers))

\* ---- C27 -------------------------------------------------------------------
\* C27: in every reachable state every transfer row of type INITIAL_DEPOSIT has
\* its source equal to its destination.
C27_InitialDepositIsSelfTransfer ==
    \A i \in 1 .. Len(transfers) :
        transfers[i].type = "INITIAL_DEPOSIT" => transfers[i].src = transfers[i].dst

\* ---- C28 -------------------------------------------------------------------
\* C28: a valid create_transfer whose idempotency key has a row but whose
\* source, destination, amount or type differ from that row is answered with
\* success and with the stored row, and nothing of the new request is applied:
\* no row is inserted or changed and no balance or version changes.
C28_Differs(q, row) ==
    \/ q.src # row.src \/ q.dst # row.dst
    \/ q.amount # row.amount \/ q.type # row.type

C28_KeyAloneDecides ==
    [][\A r \in Req : \A i \in 1 .. Len(transfers) :
         (/\ Arrives(r) /\ req'[r].op = "transfer"
          /\ validate_transfer_request(req'[r].amount, req'[r].src,
                                       req'[r].dst, req'[r].type) = "ok"
          /\ transfers[i].key = req'[r].key
          /\ C28_Differs(req'[r], transfers[i]))
         =>
         /\ req'[r].pc = "done" /\ req'[r].result = "Created201"
         /\ req'[r].tid = i
         /\ transfers'[i] = transfers[i]
         /\ Len(transfers') = Len(transfers)
         /\ Ledger(accounts') = Ledger(accounts)
         /\ appliedBy' = appliedBy]_vars

\* a request differing from the stored row in its accounts got the stored row
C28_Witness ==
    \E r \in Req :
        /\ req[r].pc = "done" /\ req[r].op = "transfer" /\ ~req[r].fresh
        /\ req[r].result = "Created201" /\ req[r].tid = 1
        /\ transfers[1].key = req[r].key
        /\ transfers[1].status = "COMPLETED"
        /\ C28_Differs(req[r], transfers[1])
        /\ req[r].writes = 0

\* ---- C29 -------------------------------------------------------------------
\* C29: a step changes the balance or version of an account only as a balance
\* write of a request that names the account as its source or destination; no
\* step changes an existing account's status or customer, and no step removes
\* an account, a customer or a transfer row or changes a row's accounts,
\* amount, key or type.
C29_FrameOfWrites ==
    [][/\ DOMAIN accounts \subseteq DOMAIN accounts'
       /\ customers \subseteq customers'
       /\ \A c \in customers : customerName'[c] = customerName[c]
       /\ Len(transfers') >= Len(transfers)
       /\ \A i \in 1 .. Len(transfers) :
            [transfers'[i] EXCEPT !.status = "PENDING"]
               = [transfers[i] EXCEPT !.status = "PENDING"]
       /\ \A a \in DOMAIN accounts :
            /\ accounts'[a].status = accounts[a].status
            /\ accounts'[a].customer = accounts[a].customer
            /\ Ledger(accounts')[a] # Ledger(accounts)[a]
               => \E r \in Req :
                     /\ InFlight(r)
                     /\ req'[r].writes = req[r].writes + 1
                     /\ a \in {req[r].src, req[r].dst}]_vars

\* a transfer has written both its accounts and left the third as it was
C29_Witness ==
    \E r \in Req :
        /\ req[r].pc = "done" /\ req[r].op = "transfer" /\ req[r].writes = 2
        /\ req[r].result = "Created201" /\ req[r].conc = {}
        /\ accounts[req[r].src] # req[r].pre[req[r].src]
        /\ accounts[req[r].dst] # req[r].pre[req[r].dst]
        /\ \E a \in DOMAIN accounts \ {req[r].src, req[r].dst} :
              accounts[a] = req[r].pre[a]

\* ---- C30 -------------------------------------------------------------------
\* C30: when a create_account (running alone) returns an error, the accounts
\* are those that existed before the request and no transfer row names any
\* other account: neither an account row nor a transfer row of the request is
\* left.
C30_CreateAccountAllOrNothing ==
    [][\A r \in Req :
         (/\ Returns(r) \/ Arrives(r)
          /\ req'[r].pc = "done"
          /\ req'[r].op = "account"
          /\ req'[r].conc = {}
          /\ req'[r].result # "AccountCreated201")
         =>
         /\ DOMAIN accounts' = DOMAIN req'[r].pre
         /\ \A i \in 1 .. Len(transfers') :
              /\ transfers'[i].src \in DOMAIN req'[r].pre
              /\ transfers'[i].dst \in DOMAIN req'[r].pre]_vars

====
